---- MODULE Spec2Model ----
(***************************************************************************)
(* PEFS directory cache (sys/fs/pefs/pefs_dircache.c).                     *)
(*                                                                         *)
(* A pool holds two hash tables (by plaintext-name hash, by encrypted-name *)
(* hash) shared by the directory caches; every cache keeps a generation,   *)
(* the UPDATING / SWAPEDHEADS flags and two entry lists (active, stale).   *)
(* Spec   : every handler is one atomic step (the caller holds pd_lock     *)
(*          exclusively, as the handlers assert).                          *)
(* SpecMT : threads run insert, free and the lookups step by step, taking  *)
(*          the cache locks and the shard mutexes as the code does.        *)
(* FairSpecMT : SpecMT under fair scheduling.                              *)
(* SpecLen  : inserts with names of every length, and purges.              *)
(* SpecInit : the module load, for every requested bucket count.           *)
(* SpecSX   : update passes of threads that enter through beginupdate.     *)
(***************************************************************************)
EXTENDS Integers, Sequences, FiniteSets, TLC

(* ------------------------------ bounds -------------------------------- *)
MaxEntries == 2
MaxGen == 2

(* ------------------------- program constants -------------------------- *)
DIRCACHE_SIZE_MIN == 512
HASHINIT == 5381
MAXCPU == 256
(* The hashes are uint32_t; the model keeps their low 24 bits, which are  *)
(* the low 24 bits of the 32-bit results (+, *, ^ carry upwards only) and *)
(* decide the bucket (& dircache_hashmask) and the mutex (% MAXCPU).      *)
HASHMOD == 16777216

Caches == {"A", "B"}
NoCache == "none"
Slots == 1..MaxEntries
NULL == 0
Gens == 0..MaxGen
Keys == {"k1"}
NoKey == "nokey"
(* The (name, encname) pairs the callers insert, as byte strings. *)
NamePairs == {<<<<97>>, <<65>>>>, <<<<97, 98>>, <<66, 67>>>>}
Names == {p[1] : p \in NamePairs}
EncNames == {p[2] : p \in NamePairs}
(* sizeof(pde_name) = sizeof(pde_encname), scaled down: names of 1 ..      *)
(* NameSize - 1 bytes fit, with their terminating NUL.                    *)
NameSize == 3
Lens == 0..NameSize
NameOfLen(n) == [i \in 1..n |-> 97]
EncNameOfLen(n) == [i \in 1..n |-> 65]
Threads == {"t1", "t2"}
NoThread == "nobody"

(* Values of pefs_hash_mixptr(pd) for the two caches: the mix of a pointer *)
(* is any 32-bit value.  B's mix differs from A's in bit 7 only, in bit 10 *)
(* only, or not at all.                                                    *)
MixPairs == {[A |-> 0, B |-> 128], [A |-> 0, B |-> 1024], [A |-> 0, B |-> 0]}

(* The loader tunable vfs.pefs.dircache.buckets and desiredvnodes at load. *)
Tunables == {[buckets |-> 0, desiredvnodes |-> 1000],
             [buckets |-> 512, desiredvnodes |-> 1000]}

(* Requests for the tunable, and values of desiredvnodes, at module load. *)
MaxRequest == 1030
Requests == 0..MaxRequest
VnodeCounts == {1000, 4096}

(* ------------------------------ helpers ------------------------------- *)
Min(S) == CHOOSE x \in S : \A y \in S : x <= y

Elems(s) == {s[i] : i \in DOMAIN s}

RECURSIVE Reverse(_)
Reverse(s) == IF s = <<>> THEN <<>> ELSE Append(Reverse(Tail(s)), Head(s))

Without(s, e) == SelectSeq(s, LAMBDA x : x # e)

RECURSIVE Pow2(_)
Pow2(n) == IF n = 0 THEN 1 ELSE 2 * Pow2(n - 1)

RECURSIVE BitXor(_, _)
BitXor(a, b) ==
    IF a = 0 THEN b
    ELSE IF b = 0 THEN a
    ELSE ((a + b) % 2) + 2 * BitXor(a \div 2, b \div 2)

RECURSIVE BitAnd(_, _)
BitAnd(a, b) ==
    IF a = 0 \/ b = 0 THEN 0
    ELSE ((a % 2) * (b % 2)) + 2 * BitAnd(a \div 2, b \div 2)

RECURSIVE flsl(_)
flsl(n) == IF n = 0 THEN 0 ELSE 1 + flsl(n \div 2)

(* ------------------------------ hashing ------------------------------- *)
RECURSIVE hash32_buf(_, _, _)
hash32_buf(buf, len, hash) ==
    IF len = 0 THEN hash
    ELSE hash32_buf(Tail(buf), len - 1, (hash * 33 + Head(buf)) % HASHMOD)

VARIABLES
    mixptr,             \* pefs_hash_mixptr(pd) of every cache
    dircache_hashmask,
    dircache_buckets,
    dircache_entries,
    dircache,           \* pd -> [pd_gen, pd_flags, pd_heads]
    pde,                \* entry slot -> entry
    pdp_tbl,            \* bucket index -> list of entries (pde_hash_entry)
    pdp_enctbl,         \* bucket index -> list of entries (pde_enchash_entry)
    keyref,             \* references held on every key
    last,               \* the handler that ran last, if it ended a pass or purged
    inserted,           \* per slot: the (name, encname) it was inserted with
    pass,               \* per cache: history of the open update pass
    thr,                \* per thread: position and locals
    mtx,                \* dircache_mtxs: owner of every shard mutex
    pd_lock             \* per cache: the sx lock

vars == <<mixptr, dircache_hashmask, dircache_buckets, dircache_entries,
          dircache, pde, pdp_tbl, pdp_enctbl, keyref, last, inserted, pass,
          thr, mtx, pd_lock>>

pefs_hash_mixptr(pd) == mixptr[pd]

dircache_hashname(pd, buf, len) ==
    BitXor(pefs_hash_mixptr(pd), hash32_buf(buf, len, (HASHINIT * len) % HASHMOD))

(* Every hash the model can compute, and the buckets and mutexes they hit. *)
AllHashes ==
    {BitXor(m[c], hash32_buf(n, Len(n), (HASHINIT * Len(n)) % HASHMOD)) :
        m \in MixPairs, c \in Caches,
        n \in Names \cup EncNames \cup {NameOfLen(l) : l \in Lens \ {0}}
                \cup {EncNameOfLen(l) : l \in Lens \ {0}}}

InitHashmask(t) ==
    LET b == IF t.buckets < DIRCACHE_SIZE_MIN THEN t.desiredvnodes \div 8
             ELSE t.buckets
    IN  Pow2(flsl(b)) - 1

AllMasks == {InitHashmask(t) : t \in Tunables}
BucketIdx == {BitAnd(h, m) : h \in AllHashes, m \in AllMasks}
MtxIdx == {h % MAXCPU : h \in AllHashes}

DIRCACHE_TBLIDX(hash) == BitAnd(hash, dircache_hashmask)
DIRCACHE_MTX(hash) == hash % MAXCPU

(* ---------------------------- the two lists --------------------------- *)
PD_UPDATING == "UPDATING"
PD_SWAPEDHEADS == "SWAPEDHEADS"

DIRCACHE_HEADOFF(d) == IF PD_SWAPEDHEADS \in d.pd_flags THEN 1 ELSE 0
ActiveIdx(d) == DIRCACHE_HEADOFF(d) + 1
StaleIdx(d) == 2 - DIRCACHE_HEADOFF(d)
DIRCACHE_ACTIVEHEAD(d) == d.pd_heads[ActiveIdx(d)]
DIRCACHE_STALEHEAD(d) == d.pd_heads[StaleIdx(d)]
DIRCACHE_ASSERT(d) == d.pd_heads[1] = <<>> \/ d.pd_heads[2] = <<>>

FreeEntry ==
    [live |-> FALSE, pde_dircache |-> NoCache, pde_name |-> <<>>,
     pde_encname |-> <<>>, pde_namehash |-> 0, pde_encnamehash |-> 0,
     pde_gen |-> 0, ptk_key |-> NoKey]

(* The program state the handlers work on, as one value. *)
Cur ==
    [pd |-> dircache, pde |-> pde, tbl |-> pdp_tbl, enctbl |-> pdp_enctbl,
     keyref |-> keyref, entries |-> dircache_entries]

Commit(S) ==
    /\ dircache' = S.pd
    /\ pde' = S.pde
    /\ pdp_tbl' = S.tbl
    /\ pdp_enctbl' = S.enctbl
    /\ keyref' = S.keyref
    /\ dircache_entries' = S.entries

(* inserted' after a handler that led to state T and inserted `new` *)
InsertedAfter(T, new) ==
    inserted' = [e \in Slots |->
                   IF e \in DOMAIN new THEN new[e]
                   ELSE IF T.pde[e].live THEN inserted[e] ELSE <<>>]

(* ------------------------- handlers, as functions ---------------------- *)
(* Each takes the program state S (see Cur) and returns the state after.  *)

SetHeads(d, act, stale) ==
    [d EXCEPT !.pd_heads = IF ActiveIdx(d) = 1 THEN <<act, stale>>
                           ELSE <<stale, act>>]

(* Faulty variant: the entry is freed without pefs_key_release. *)
dircache_entry_free_keepref(S, e) ==
    LET c == S.pde[e].pde_dircache
        d == S.pd[c]
        bi == BitAnd(S.pde[e].pde_namehash, dircache_hashmask)
        ei == BitAnd(S.pde[e].pde_encnamehash, dircache_hashmask)
    IN  [pd |-> [S.pd EXCEPT ![c] =
                    [d EXCEPT !.pd_heads = <<Without(d.pd_heads[1], e),
                                             Without(d.pd_heads[2], e)>>]],
         pde |-> [S.pde EXCEPT ![e] = FreeEntry],
         tbl |-> [S.tbl EXCEPT ![bi] = Without(@, e)],
         enctbl |-> [S.enctbl EXCEPT ![ei] = Without(@, e)],
         keyref |-> S.keyref,
         entries |-> S.entries - 1]

(* dircache_entry_free: unlink from the directory list and from both pool *)
(* buckets, release the key, decrement the counter, free the slot.        *)
dircache_entry_free(S, e) ==
    LET c == S.pde[e].pde_dircache
        d == S.pd[c]
        k == S.pde[e].ptk_key
        bi == BitAnd(S.pde[e].pde_namehash, dircache_hashmask)
        ei == BitAnd(S.pde[e].pde_encnamehash, dircache_hashmask)
    IN  [pd |-> [S.pd EXCEPT ![c] =
                    [d EXCEPT !.pd_heads = <<Without(d.pd_heads[1], e),
                                             Without(d.pd_heads[2], e)>>]],
         pde |-> [S.pde EXCEPT ![e] = FreeEntry],
         tbl |-> [S.tbl EXCEPT ![bi] = Without(@, e)],
         enctbl |-> [S.enctbl EXCEPT ![ei] = Without(@, e)],
         keyref |-> [S.keyref EXCEPT ![k] = @ - 1],
         entries |-> S.entries - 1]

(* while (!LIST_EMPTY(head)) dircache_entry_free(LIST_FIRST(head)) *)
RECURSIVE FreeStale(_, _)
FreeStale(S, c) ==
    IF DIRCACHE_STALEHEAD(S.pd[c]) = <<>> THEN S
    ELSE FreeStale(dircache_entry_free(S, Head(DIRCACHE_STALEHEAD(S.pd[c]))), c)

RECURSIVE FreeActive(_, _)
FreeActive(S, c) ==
    IF DIRCACHE_ACTIVEHEAD(S.pd[c]) = <<>> THEN S
    ELSE FreeActive(dircache_entry_free(S, Head(DIRCACHE_ACTIVEHEAD(S.pd[c]))), c)

(* Faulty variant: frees the stale list only. *)
pefs_dircache_purge_staleonly(S, c) == FreeStale(S, c)

pefs_dircache_purge(S, c) == FreeActive(FreeStale(S, c), c)

(* Faulty variant: flips the heads even when the stale list is not empty. *)
dircache_expire_alwaysswap(S, c) ==
    [S EXCEPT !.pd[c] =
        [@ EXCEPT !.pd_gen = 0,
                  !.pd_flags = IF PD_SWAPEDHEADS \in @ THEN @ \ {PD_SWAPEDHEADS}
                               ELSE @ \cup {PD_SWAPEDHEADS}]]

(* Faulty variant: never relinks the active entries when the stale list is not empty. *)
dircache_expire_nomove(S, c) ==
    IF DIRCACHE_STALEHEAD(S.pd[c]) = <<>>
    THEN dircache_expire_alwaysswap(S, c)
    ELSE [S EXCEPT !.pd[c].pd_gen = 0]

dircache_expire(S, c) ==
    LET d == [S.pd[c] EXCEPT !.pd_gen = 0]
        act == DIRCACHE_ACTIVEHEAD(d)
        stale == DIRCACHE_STALEHEAD(d)
    IN  IF stale = <<>>
        THEN [S EXCEPT !.pd[c] =
                 [d EXCEPT !.pd_flags =
                     IF PD_SWAPEDHEADS \in @ THEN @ \ {PD_SWAPEDHEADS}
                     ELSE @ \cup {PD_SWAPEDHEADS}]]
        ELSE [S EXCEPT
                 !.pd[c] = SetHeads(d, <<>>, Reverse(act) \o stale),
                 !.pde = [e \in Slots |->
                            IF e \in Elems(act)
                            THEN [S.pde[e] EXCEPT !.pde_gen = 0]
                            ELSE S.pde[e]]]

(* Faulty variant: does not stamp the entry with the generation of the pass. *)
dircache_update_nostamp(S, e, onlist) ==
    LET c == S.pde[e].pde_dircache
        d == S.pd[c]
        d1 == IF onlist
              THEN [d EXCEPT !.pd_heads = <<Without(@[1], e), Without(@[2], e)>>]
              ELSE d
    IN  IF PD_UPDATING \in d.pd_flags
        THEN [S EXCEPT !.pd[c] = SetHeads(d1, <<e>> \o DIRCACHE_ACTIVEHEAD(d1),
                                          DIRCACHE_STALEHEAD(d1))]
        ELSE IF onlist THEN S
        ELSE [S EXCEPT !.pd[c] = SetHeads(d, DIRCACHE_ACTIVEHEAD(d),
                                          <<e>> \o DIRCACHE_STALEHEAD(d))]

(* Faulty variant: on an idle cache the new entry is linked to the active list. *)
dircache_update_idleactive(S, e, onlist) ==
    LET c == S.pde[e].pde_dircache
        d == S.pd[c]
    IN  IF PD_UPDATING \in d.pd_flags
        THEN LET d1 == IF onlist
                       THEN [d EXCEPT !.pd_heads = <<Without(@[1], e),
                                                     Without(@[2], e)>>]
                       ELSE d
             IN  [S EXCEPT
                    !.pde[e].pde_gen = d.pd_gen,
                    !.pd[c] = SetHeads(d1, <<e>> \o DIRCACHE_ACTIVEHEAD(d1),
                                       DIRCACHE_STALEHEAD(d1))]
        ELSE IF d.pd_gen = 0 \/ d.pd_gen # S.pde[e].pde_gen
        THEN LET S1 == dircache_expire(S, c)
                 d1 == S1.pd[c]
             IN  [S1 EXCEPT
                    !.pde[e].pde_gen = 0,
                    !.pd[c] = IF onlist THEN d1
                              ELSE SetHeads(d1, <<e>> \o DIRCACHE_ACTIVEHEAD(d1),
                                            DIRCACHE_STALEHEAD(d1))]
        ELSE S

(* dircache_update(pde, onlist), on the state S (whose S.pde[e] is set up) *)
dircache_update(S, e, onlist) ==
    LET c == S.pde[e].pde_dircache
        d == S.pd[c]
    IN  IF PD_UPDATING \in d.pd_flags
        THEN LET d1 == IF onlist
                       THEN [d EXCEPT !.pd_heads = <<Without(@[1], e),
                                                     Without(@[2], e)>>]
                       ELSE d
             IN  [S EXCEPT
                    !.pde[e].pde_gen = d.pd_gen,
                    !.pd[c] = SetHeads(d1, <<e>> \o DIRCACHE_ACTIVEHEAD(d1),
                                       DIRCACHE_STALEHEAD(d1))]
        ELSE IF d.pd_gen = 0 \/ d.pd_gen # S.pde[e].pde_gen
        THEN LET S1 == dircache_expire(S, c)
                 d1 == S1.pd[c]
             IN  [S1 EXCEPT
                    !.pde[e].pde_gen = 0,
                    !.pd[c] = IF onlist THEN d1
                              ELSE SetHeads(d1, DIRCACHE_ACTIVEHEAD(d1),
                                            <<e>> \o DIRCACHE_STALEHEAD(d1))]
        ELSE S

(* Faulty variant: lets a name of exactly sizeof(pde_name) bytes through. *)
InsertPanics_loose(name_len, encname_len) ==
    \/ name_len = 0 \/ name_len > NameSize
    \/ encname_len = 0 \/ encname_len > NameSize

(* The length test of pefs_dircache_insert (lines 347-350): panic. *)
InsertPanics(name_len, encname_len) ==
    \/ name_len = 0 \/ name_len >= NameSize
    \/ encname_len = 0 \/ encname_len >= NameSize

(* pefs_dircache_insert, up to and including dircache_update(pde, 0):    *)
(* the slot e (the one uma_zalloc returned, zeroed) is filled and linked  *)
(* into a list of the cache.                                              *)
InsertEntry(S, c, e, key, name, encname) ==
    LET nh == dircache_hashname(c, name, Len(name))
        eh == dircache_hashname(c, encname, Len(encname))
        S0 == [S EXCEPT
                 !.pde[e] = [live |-> TRUE, pde_dircache |-> c,
                             pde_name |-> name, pde_encname |-> encname,
                             pde_namehash |-> nh, pde_encnamehash |-> eh,
                             pde_gen |-> 0, ptk_key |-> key],
                 !.keyref[key] = @ + 1]
    IN  dircache_update(S0, e, FALSE)

(* pefs_dircache_insert: the entry, then both buckets and the counter. *)
pefs_dircache_insert(S, c, e, key, name, encname) ==
    LET S1 == InsertEntry(S, c, e, key, name, encname)
    IN  [S1 EXCEPT
           !.tbl[DIRCACHE_TBLIDX(S1.pde[e].pde_namehash)] = <<e>> \o @,
           !.enctbl[DIRCACHE_TBLIDX(S1.pde[e].pde_encnamehash)] = <<e>> \o @,
           !.entries = @ + 1]

(* LIST_FOREACH over a bucket: the first entry among those passing the    *)
(* match test, or NULL.                                                   *)
FirstMatch(bucket, matching) ==
    LET m == SelectSeq(bucket, LAMBDA x : x \in matching)
    IN  IF m = <<>> THEN NULL ELSE Head(m)

LookupMatch(S, c, name, h, x) ==
    /\ S.pde[x].pde_namehash = h
    /\ S.pde[x].pde_dircache = c
    /\ S.pde[x].pde_gen = S.pd[c].pd_gen
    /\ Len(S.pde[x].pde_name) = Len(name)
    /\ S.pde[x].pde_name = name

pefs_dircache_lookup(S, c, name) ==
    LET h == dircache_hashname(c, name, Len(name))
        matching == {x \in Slots : LookupMatch(S, c, name, h, x)}
    IN  FirstMatch(S.tbl[DIRCACHE_TBLIDX(h)], matching)

(* Faulty variant: the encrypted-name test also asks for a fresh generation stamp. *)
EncLookupMatch_fresh(S, c, encname, h, x) ==
    /\ S.pde[x].pde_encnamehash = h
    /\ S.pde[x].pde_dircache = c
    /\ S.pde[x].pde_gen = S.pd[c].pd_gen
    /\ S.pde[x].pde_encname = encname

EncLookupMatch(S, c, encname, h, x) ==
    /\ S.pde[x].pde_encnamehash = h
    /\ S.pde[x].pde_dircache = c
    /\ Len(S.pde[x].pde_encname) = Len(encname)
    /\ S.pde[x].pde_encname = encname

pefs_dircache_enclookup(S, c, encname) ==
    LET h == dircache_hashname(c, encname, Len(encname))
        matching == {x \in Slots : EncLookupMatch(S, c, encname, h, x)}
    IN  FirstMatch(S.enctbl[DIRCACHE_TBLIDX(h)], matching)

pefs_dircache_update(S, e) == dircache_update(S, e, TRUE)

(* TRUE when beginupdate(pd, gen) opens a pass (line 472). *)
BeginOpens(d, gen) == gen # 0 /\ d.pd_gen # gen

(* Faulty variant: opens a pass for every non-zero gen, the current one included. *)
pefs_dircache_beginupdate_always(S, c, gen) ==
    IF gen # 0
    THEN LET S1 == IF DIRCACHE_ACTIVEHEAD(S.pd[c]) # <<>>
                   THEN dircache_expire(S, c) ELSE S
         IN  [S1 EXCEPT !.pd[c].pd_gen = gen,
                        !.pd[c].pd_flags = @ \cup {PD_UPDATING}]
    ELSE S

(* Faulty variant: opens the pass without expiring the active list. *)
pefs_dircache_beginupdate_noexpire(S, c, gen) ==
    IF BeginOpens(S.pd[c], gen)
    THEN [S EXCEPT !.pd[c].pd_gen = gen,
                   !.pd[c].pd_flags = @ \cup {PD_UPDATING}]
    ELSE S

pefs_dircache_beginupdate(S, c, gen) ==
    IF BeginOpens(S.pd[c], gen)
    THEN LET S1 == IF DIRCACHE_ACTIVEHEAD(S.pd[c]) # <<>>
                   THEN dircache_expire(S, c) ELSE S
         IN  [S1 EXCEPT !.pd[c].pd_gen = gen,
                        !.pd[c].pd_flags = @ \cup {PD_UPDATING}]
    ELSE S

(* Faulty variant: drops the entries the pass had not confirmed, as endupdate does. *)
pefs_dircache_abortupdate_drop(S, c) ==
    IF PD_UPDATING \in S.pd[c].pd_flags
    THEN LET S1 == dircache_expire(FreeStale(S, c), c)
         IN  [S1 EXCEPT !.pd[c].pd_flags = @ \ {PD_UPDATING}]
    ELSE S

(* Faulty variant: leaves the pass without resetting the generation. *)
pefs_dircache_abortupdate_keepgen(S, c) ==
    IF PD_UPDATING \in S.pd[c].pd_flags
    THEN LET S1 == dircache_expire(S, c)
         IN  [S1 EXCEPT !.pd[c].pd_flags = @ \ {PD_UPDATING},
                        !.pd[c].pd_gen = S.pd[c].pd_gen]
    ELSE S

pefs_dircache_abortupdate(S, c) ==
    IF PD_UPDATING \in S.pd[c].pd_flags
    THEN LET S1 == dircache_expire(S, c)
         IN  [S1 EXCEPT !.pd[c].pd_flags = @ \ {PD_UPDATING}]
    ELSE S

(* Faulty variant: ends the pass without freeing the stale list. *)
pefs_dircache_endupdate_nofree(S, c) ==
    [S EXCEPT !.pd[c].pd_flags = @ \ {PD_UPDATING}]

pefs_dircache_endupdate(S, c) ==
    IF PD_UPDATING \notin S.pd[c].pd_flags THEN S
    ELSE LET S1 == FreeStale(S, c)
         IN  [S1 EXCEPT !.pd[c].pd_flags = @ \ {PD_UPDATING}]

(* ------------------------------ Init ---------------------------------- *)
NoPass == [pre |-> {}, conf |-> {}]
Did(op, c, n) == [op |-> op, pd |-> c, n |-> n]
Other == Did("other", NoCache, 0)
IdleThread ==
    [pc |-> "idle", pd |-> NoCache, op |-> "none", tb |-> "none", e |-> NULL,
     h |-> 0, nm |-> <<>>, snap |-> <<>>, ret |-> NULL, todo |-> <<>>]

(* pefs_dircache_init with the tunable t *)
pefs_dircache_init(t) ==
    /\ dircache_buckets = (IF t.buckets < DIRCACHE_SIZE_MIN
                           THEN t.desiredvnodes \div 8 ELSE t.buckets)
    /\ dircache_hashmask = Pow2(flsl(dircache_buckets)) - 1
    /\ mtx = [i \in MtxIdx |-> NoThread]
    /\ pdp_tbl = [i \in BucketIdx |-> <<>>]
    /\ pdp_enctbl = [i \in BucketIdx |-> <<>>]
    /\ dircache_entries = 0

(* pefs_dircache_create, for both caches, on the global pool *)
pefs_dircache_create ==
    /\ dircache = [c \in Caches |->
                     [pd_gen |-> 0, pd_flags |-> {}, pd_heads |-> <<<<>>, <<>>>>]]
    /\ pd_lock = [c \in Caches |-> [x |-> NoThread, s |-> {}]]

InitWith(mixes, tunables) ==
    /\ mixptr \in mixes
    /\ \E t \in tunables : pefs_dircache_init(t)
    /\ pefs_dircache_create
    /\ pde = [e \in Slots |-> FreeEntry]
    /\ keyref = [k \in Keys |-> 0]
    /\ last = Other
    /\ inserted = [e \in Slots |-> <<>>]
    /\ pass = [c \in Caches |-> NoPass]
    /\ thr = [t \in Threads |-> IdleThread]

(* Spec: equal names of the two caches have equal hashes (in the bits kept) *)
Init == InitWith({m \in MixPairs : m.B = 0},
                {t \in Tunables : t.buckets = 512})

(* --------------------- Spec: one step per handler --------------------- *)
Updating(S, c) == PD_UPDATING \in S.pd[c].pd_flags
Live(S) == {e \in Slots : S.pde[e].live}
Owned(S, c) == {e \in Slots : S.pde[e].live /\ S.pde[e].pde_dircache = c}
OnLists(S, c) == Elems(S.pd[c].pd_heads[1]) \cup Elems(S.pd[c].pd_heads[2])

UnchangedMT == UNCHANGED <<thr, mtx, pd_lock>>
UnchangedCfg == UNCHANGED <<mixptr, dircache_hashmask, dircache_buckets>>

(* History of the pass of cache c after a handler that led to state T:   *)
(* pre  = the entries that existed when beginupdate opened the pass,      *)
(* conf = the entries dircache_update confirmed while Updating;           *)
(* both are kept through the endupdate that commits the pass, and dropped *)
(* by the next handler called on the cache.                               *)
PassAfter(T, c, confirmed) ==
    IF Updating(T, c)
    THEN [pre |-> pass[c].pre \cap Live(T),
          conf |-> (pass[c].conf \cup confirmed) \cap Live(T)]
    ELSE NoPass

Insert(c, key, name, encname) ==
    /\ ~InsertPanics(Len(name), Len(encname))
    /\ Slots \ Live(Cur) # {}
    /\ LET e == Min(Slots \ Live(Cur))
           T == pefs_dircache_insert(Cur, c, e, key, name, encname)
       IN  /\ Commit(T)
           /\ InsertedAfter(T, e :> <<name, encname>>)
           /\ pass' = [pass EXCEPT ![c] = PassAfter(T, c, {e})]
           /\ last' = Other
    /\ UnchangedMT /\ UnchangedCfg

Update(e) ==
    /\ pde[e].live
    /\ LET c == pde[e].pde_dircache
           T == pefs_dircache_update(Cur, e)
       IN  /\ Commit(T)
           /\ InsertedAfter(T, <<>>)
           /\ pass' = [pass EXCEPT ![c] = PassAfter(T, c, {e})]
           /\ last' = Other
    /\ UnchangedMT /\ UnchangedCfg

(* The caller keeps the two preconditions pefs_dircache_lookup asserts. *)
Lookup(c, name) ==
    /\ ~Updating(Cur, c)
    /\ DIRCACHE_STALEHEAD(dircache[c]) = <<>>
    /\ last' = Other
    /\ pass' = [pass EXCEPT ![c] = PassAfter(Cur, c, {})]
    /\ UNCHANGED <<dircache, pde, pdp_tbl, pdp_enctbl, keyref,
                   dircache_entries, inserted>>
    /\ UnchangedMT /\ UnchangedCfg

EncLookup(c, encname) ==
    /\ last' = Other
    /\ pass' = [pass EXCEPT ![c] = PassAfter(Cur, c, {})]
    /\ UNCHANGED <<dircache, pde, pdp_tbl, pdp_enctbl, keyref,
                   dircache_entries, inserted>>
    /\ UnchangedMT /\ UnchangedCfg

BeginUpdate(c, gen) ==
    /\ LET T == pefs_dircache_beginupdate(Cur, c, gen)
       IN  /\ Commit(T)
           /\ InsertedAfter(T, <<>>)
           /\ pass' = [pass EXCEPT ![c] =
                         IF BeginOpens(dircache[c], gen)
                         THEN [pre |-> Owned(Cur, c), conf |-> {}]
                         ELSE PassAfter(T, c, {})]
    /\ last' = Other
    /\ UnchangedMT /\ UnchangedCfg

AbortUpdate(c) ==
    /\ LET T == pefs_dircache_abortupdate(Cur, c)
       IN  Commit(T) /\ InsertedAfter(T, <<>>)
    /\ pass' = [pass EXCEPT ![c] = NoPass]
    /\ last' = IF Updating(Cur, c) THEN Did("abortupdate", c, 0) ELSE Other
    /\ UnchangedMT /\ UnchangedCfg

EndUpdate(c) ==
    /\ LET T == pefs_dircache_endupdate(Cur, c)
       IN  Commit(T) /\ InsertedAfter(T, <<>>)
    /\ pass' = [pass EXCEPT ![c] = IF Updating(Cur, c) THEN @ ELSE NoPass]
    /\ last' = IF Updating(Cur, c)
               THEN Did("endupdate", c, Len(DIRCACHE_STALEHEAD(dircache[c])))
               ELSE Other
    /\ UnchangedMT /\ UnchangedCfg

Purge(c) ==
    /\ LET T == pefs_dircache_purge(Cur, c)
       IN  /\ Commit(T)
           /\ InsertedAfter(T, <<>>)
           /\ pass' = [pass EXCEPT ![c] = PassAfter(T, c, {})]
    /\ last' = Did("purge", c, Cardinality(OnLists(Cur, c)))
    /\ UnchangedMT /\ UnchangedCfg

Next ==
    \/ \E c \in Caches, k \in Keys, p \in NamePairs : Insert(c, k, p[1], p[2])
    \/ \E e \in Slots : Update(e)
    \/ \E c \in Caches, n \in Names : Lookup(c, n)
    \/ \E c \in Caches, en \in EncNames : EncLookup(c, en)
    \/ \E c \in Caches, g \in Gens : BeginUpdate(c, g)
    \/ \E c \in Caches : AbortUpdate(c)
    \/ \E c \in Caches : EndUpdate(c)
    \/ \E c \in Caches : Purge(c)

Spec == Init /\ [][Next]_vars

(* --------------- SpecLen: insert with names of every length ------------ *)
(* pefs_dircache_insert called with name_len and encname_len drawn from   *)
(* Lens; a panic stops the system (last.op = "panic", no step after it).  *)
Panicked == last.op = "panic"

InsertLen(c, key, name_len, encname_len) ==
    /\ ~Panicked
    /\ IF InsertPanics(name_len, encname_len)
       THEN /\ last' = Did("panic", c, 0)
            /\ UNCHANGED <<dircache, pde, pdp_tbl, pdp_enctbl, keyref,
                           dircache_entries, inserted, pass>>
            /\ UnchangedMT /\ UnchangedCfg
       ELSE Insert(c, key, NameOfLen(name_len), EncNameOfLen(encname_len))

PurgeLen(c) == ~Panicked /\ Purge(c)

NextLen ==
    \/ \E c \in Caches, k \in Keys, nl \in Lens, el \in Lens :
          InsertLen(c, k, nl, el)
    \/ \E c \in Caches : PurgeLen(c)

SpecLen == Init /\ [][NextLen]_vars

(* ------------- SpecInit: the module load, for every request ----------- *)
(* Before the load dircache_buckets holds what the tunable asked for and  *)
(* no table exists; pefs_dircache_init and pefs_dircache_pool_init then   *)
(* fix the mask, the mutexes and the two tables.                          *)
InitLoad ==
    /\ dircache_buckets \in Requests
    /\ dircache_hashmask = 0
    /\ mixptr \in {m \in MixPairs : m.B = 0}
    /\ mtx = <<>>
    /\ pdp_tbl = <<>>
    /\ pdp_enctbl = <<>>
    /\ dircache_entries = 0
    /\ pefs_dircache_create
    /\ pde = [e \in Slots |-> FreeEntry]
    /\ keyref = [k \in Keys |-> 0]
    /\ last = Did("boot", NoCache, dircache_buckets)
    /\ inserted = [e \in Slots |-> <<>>]
    /\ pass = [c \in Caches |-> NoPass]
    /\ thr = [t \in Threads |-> IdleThread]

ModuleLoad(desiredvnodes) ==
    /\ last.op = "boot"
    /\ LET t == [buckets |-> dircache_buckets, desiredvnodes |-> desiredvnodes]
           tbl_size == InitHashmask(t) + 1
       IN  /\ dircache_buckets' = (IF t.buckets < DIRCACHE_SIZE_MIN
                                   THEN t.desiredvnodes \div 8 ELSE t.buckets)
           /\ dircache_hashmask' = InitHashmask(t)
           /\ mtx' = [i \in 0..(MAXCPU - 1) |-> NoThread]
           /\ pdp_tbl' = [i \in 0..(tbl_size - 1) |-> <<>>]
           /\ pdp_enctbl' = [i \in 0..(tbl_size - 1) |-> <<>>]
    /\ last' = Did("init", NoCache, dircache_buckets)
    /\ UNCHANGED <<mixptr, dircache_entries, dircache, pde, keyref, inserted,
                   pass, thr, pd_lock>>

NextInit == \E v \in VnodeCounts : ModuleLoad(v)

SpecInit == InitLoad /\ [][NextInit]_vars

(* ------------------ SpecMT: threads, locks, bucket steps --------------- *)
(* Threads insert, purge and look up; no update pass is opened, so the    *)
(* entries are inserted in the Idle state.                                *)
(* A thread takes pd_lock of a cache (exclusively to insert or free,      *)
(* shared to look up), then works on a pool bucket in steps: it locks the *)
(* shard mutex of the hash and reads the list (MT_MtxLock), and later     *)
(* writes the list back or tests the entries it read, and unlocks.        *)
(* Memory returned to the zone keeps its contents until it is allocated   *)
(* again (uma_zalloc with M_ZERO).                                        *)
MTPairs == {p \in NamePairs : Len(p[1]) = 1}

InitMT == InitWith({m \in MixPairs : m.B # 0}, Tunables)

UnchangedGhost == UNCHANGED <<last, inserted, pass>>

Bucket(tb, h) ==
    IF tb = "tbl" THEN pdp_tbl[DIRCACHE_TBLIDX(h)] ELSE pdp_enctbl[DIRCACHE_TBLIDX(h)]

(* LIST_INSERT_HEAD of e in front of the list `snap` the thread read.  If  *)
(* snap still links the memory of e (a link left behind by a lost update) *)
(* the list now loops: it is kept up to the place where it meets e again. *)
InsertHead(snap, e) ==
    IF e \in Elems(snap)
    THEN <<e>> \o SubSeq(snap, 1, Min({i \in DOMAIN snap : snap[i] = e}))
    ELSE <<e>> \o snap

Loops(list) == Cardinality(Elems(list)) < Len(list)

sx_xlock(t, c) ==
    /\ pd_lock[c].x = NoThread /\ pd_lock[c].s = {}
    /\ pd_lock' = [pd_lock EXCEPT ![c].x = t]

sx_slock(t, c) ==
    /\ pd_lock[c].x = NoThread
    /\ pd_lock' = [pd_lock EXCEPT ![c].s = @ \cup {t}]

sx_unlock(t, c) ==
    pd_lock' = [pd_lock EXCEPT ![c].x = IF @ = t THEN NoThread ELSE @,
                               ![c].s = @ \ {t}]

(* pefs_dircache_insert, lines 345-378: allocate, fill, dircache_update. *)
MT_InsertStart(t, c, key, name, encname) ==
    /\ thr[t].pc = "idle"
    /\ Slots \ Live(Cur) # {}
    /\ sx_xlock(t, c)
    /\ LET e == Min(Slots \ Live(Cur))
           T == InsertEntry(Cur, c, e, key, name, encname)
       IN  /\ Commit([T EXCEPT !.tbl = pdp_tbl, !.enctbl = pdp_enctbl,
                               !.entries = dircache_entries])
           /\ thr' = [thr EXCEPT ![t] =
                        [IdleThread EXCEPT !.pc = "lock", !.pd = c, !.op = "ins",
                                           !.tb = "tbl", !.e = e,
                                           !.h = T.pde[e].pde_namehash]]
    /\ UNCHANGED mtx /\ UnchangedGhost /\ UnchangedCfg

(* pefs_dircache_purge: the entries to free, stale list first. *)
MT_FreeStart(t, c) ==
    /\ thr[t].pc = "idle"
    /\ sx_xlock(t, c)
    /\ LET todo == DIRCACHE_STALEHEAD(dircache[c]) \o
                   DIRCACHE_ACTIVEHEAD(dircache[c])
       IN  /\ todo # <<>>
           /\ thr' = [thr EXCEPT ![t] =
                        [IdleThread EXCEPT !.pc = "free", !.pd = c, !.op = "rem",
                                           !.todo = todo]]
    /\ UNCHANGED <<dircache, pde, pdp_tbl, pdp_enctbl, keyref, dircache_entries,
                   mtx>>
    /\ UnchangedGhost /\ UnchangedCfg

(* dircache_entry_free, lines 269-270: release the key, leave the list. *)
MT_FreeEntry(t) ==
    /\ thr[t].pc = "free"
    /\ LET e == Head(thr[t].todo)
           c == thr[t].pd
       IN  /\ keyref' = [keyref EXCEPT ![pde[e].ptk_key] = @ - 1]
           /\ dircache' = [dircache EXCEPT ![c].pd_heads =
                              <<Without(@[1], e), Without(@[2], e)>>]
           /\ thr' = [thr EXCEPT ![t].pc = "lock", ![t].tb = "tbl", ![t].e = e,
                                 ![t].h = pde[e].pde_namehash]
    /\ UNCHANGED <<pde, pdp_tbl, pdp_enctbl, dircache_entries, mtx, pd_lock>>
    /\ UnchangedGhost /\ UnchangedCfg

(* pefs_dircache_lookup / pefs_dircache_enclookup up to the mutex. *)
MT_LookupStart(t, c, tb, nm) ==
    /\ thr[t].pc = "idle"
    /\ tb = "tbl" => (~Updating(Cur, c) /\ DIRCACHE_STALEHEAD(dircache[c]) = <<>>)
    /\ sx_slock(t, c)
    /\ thr' = [thr EXCEPT ![t] =
                 [IdleThread EXCEPT !.pc = "lock", !.pd = c, !.op = "scan",
                                    !.tb = tb, !.nm = nm,
                                    !.h = dircache_hashname(c, nm, Len(nm))]]
    /\ UNCHANGED <<dircache, pde, pdp_tbl, pdp_enctbl, keyref, dircache_entries,
                   mtx>>
    /\ UnchangedGhost /\ UnchangedCfg

(* mtx_lock(bucket_mtx), and the first read of the bucket list. *)
MT_MtxLock(t) ==
    /\ thr[t].pc = "lock"
    /\ mtx[DIRCACHE_MTX(thr[t].h)] = NoThread
    /\ mtx' = [mtx EXCEPT ![DIRCACHE_MTX(thr[t].h)] = t]
    /\ thr' = [thr EXCEPT ![t].pc = "cs", ![t].snap = Bucket(thr[t].tb, thr[t].h)]
    /\ UNCHANGED <<dircache, pde, pdp_tbl, pdp_enctbl, keyref, dircache_entries,
                   pd_lock>>
    /\ UnchangedGhost /\ UnchangedCfg

(* LIST_INSERT_HEAD / LIST_REMOVE write the list back; mtx_unlock.  After *)
(* the second bucket: the counter, uma_zfree, and the end of the handler. *)
MT_BucketWrite(t) ==
    /\ thr[t].pc = "cs" /\ thr[t].op \in {"ins", "rem"}
    /\ LET e == thr[t].e
           c == thr[t].pd
           i == DIRCACHE_TBLIDX(thr[t].h)
           list == IF thr[t].op = "ins" THEN InsertHead(thr[t].snap, e)
                   ELSE Without(thr[t].snap, e)
           rest == Tail(thr[t].todo)
       IN  /\ mtx' = [mtx EXCEPT ![DIRCACHE_MTX(thr[t].h)] = NoThread]
           /\ IF thr[t].tb = "tbl"
              THEN /\ pdp_tbl' = [pdp_tbl EXCEPT ![i] = list]
                   /\ thr' = [thr EXCEPT ![t].pc = "lock", ![t].tb = "enctbl",
                                         ![t].snap = <<>>,
                                         ![t].h = pde[e].pde_encnamehash]
                   /\ UNCHANGED <<pdp_enctbl, pde, dircache_entries, dircache,
                                  pd_lock>>
              ELSE /\ pdp_enctbl' = [pdp_enctbl EXCEPT ![i] = list]
                   /\ UNCHANGED pdp_tbl
                   /\ IF thr[t].op = "ins"
                      THEN /\ dircache_entries' = dircache_entries + 1
                           /\ thr' = [thr EXCEPT ![t] = IdleThread]
                           /\ sx_unlock(t, c)
                           /\ UNCHANGED <<pde, dircache>>
                      ELSE /\ dircache_entries' = dircache_entries - 1
                           /\ pde' = [pde EXCEPT ![e].live = FALSE]
                           /\ IF rest # <<>>
                              THEN /\ thr' = [thr EXCEPT ![t].pc = "free",
                                                ![t].todo = rest, ![t].e = NULL,
                                                ![t].snap = <<>>, ![t].h = 0,
                                                ![t].tb = "none"]
                                   /\ UNCHANGED <<dircache, pd_lock>>
                              ELSE /\ thr' = [thr EXCEPT ![t] = IdleThread]
                                   /\ sx_unlock(t, c)
                                   /\ UNCHANGED dircache
    /\ UNCHANGED keyref
    /\ UnchangedGhost /\ UnchangedCfg

(* LIST_FOREACH with the match test, on the entries as they are now. *)
MT_Scan(t) ==
    /\ thr[t].pc = "cs" /\ thr[t].op = "scan"
    /\ LET c == thr[t].pd
           TestN == {x \in Slots : LookupMatch(Cur, c, thr[t].nm, thr[t].h, x)}
           TestE == {x \in Slots : EncLookupMatch(Cur, c, thr[t].nm, thr[t].h, x)}
           r == IF thr[t].tb = "tbl" THEN FirstMatch(thr[t].snap, TestN)
                ELSE FirstMatch(thr[t].snap, TestE)
       IN  /\ r = NULL => ~Loops(thr[t].snap)
           /\ thr' = [thr EXCEPT ![t].pc = "found", ![t].snap = <<>>,
                                 ![t].ret = r]
    /\ UNCHANGED <<dircache, pde, pdp_tbl, pdp_enctbl, keyref, dircache_entries,
                   mtx, pd_lock>>
    /\ UnchangedGhost /\ UnchangedCfg

(* mtx_unlock(bucket_mtx); return (pde) *)
MT_ScanUnlock(t) ==
    /\ thr[t].pc = "found"
    /\ mtx' = [mtx EXCEPT ![DIRCACHE_MTX(thr[t].h)] = NoThread]
    /\ thr' = [thr EXCEPT ![t].pc = "ret"]
    /\ UNCHANGED <<dircache, pde, pdp_tbl, pdp_enctbl, keyref, dircache_entries,
                   pd_lock>>
    /\ UnchangedGhost /\ UnchangedCfg

(* The caller is done with the entry and drops its hold of pd_lock. *)
MT_Return(t) ==
    /\ thr[t].pc = "ret"
    /\ sx_unlock(t, thr[t].pd)
    /\ thr' = [thr EXCEPT ![t] = IdleThread]
    /\ UNCHANGED <<dircache, pde, pdp_tbl, pdp_enctbl, keyref, dircache_entries,
                   mtx>>
    /\ UnchangedGhost /\ UnchangedCfg

NextMT ==
    \/ \E t \in Threads, c \in Caches, k \in Keys, p \in MTPairs :
          MT_InsertStart(t, c, k, p[1], p[2])
    \/ \E t \in Threads, c \in Caches : MT_FreeStart(t, c)
    \/ \E t \in Threads : MT_FreeEntry(t)
    \/ \E t \in Threads, c \in Caches, p \in MTPairs :
          \/ MT_LookupStart(t, c, "tbl", p[1])
          \/ MT_LookupStart(t, c, "enctbl", p[2])
    \/ \E t \in Threads : MT_MtxLock(t)
    \/ \E t \in Threads : MT_BucketWrite(t)
    \/ \E t \in Threads : MT_Scan(t)
    \/ \E t \in Threads : MT_ScanUnlock(t)
    \/ \E t \in Threads : MT_Return(t)

SpecMT == InitMT /\ [][NextMT]_vars

(* SpecMT under fair scheduling: a thread that can take its next step      *)
(* takes it (the scheduler runs every runnable thread), and a thread       *)
(* waiting for a shard mutex gets it if the mutex is released again and    *)
(* again (mtx_lock queues the waiters on a turnstile).                     *)
FairMT ==
    \A t \in Threads :
        /\ WF_vars(MT_FreeEntry(t))
        /\ SF_vars(MT_MtxLock(t))
        /\ WF_vars(MT_BucketWrite(t))
        /\ WF_vars(MT_Scan(t))
        /\ WF_vars(MT_ScanUnlock(t))
        /\ WF_vars(MT_Return(t))

FairSpecMT == SpecMT /\ FairMT

(* ------------- SpecSX: the cache lock around an update pass ------------ *)
(* Threads that hold pd_lock of cache SXCache shared call                  *)
(* pefs_dircache_beginupdate, work in the pass and close it; the caller    *)
(* takes the shared lock before and drops the lock after.  A thread's pc:  *)
(*   idle, shared (lock held shared), retry (upgrade failed), xlock        *)
(*   (unlocked, about to sx_xlock), test (at the generation test), pass    *)
(*   (beginupdate returned), done (endupdate or abortupdate returned).     *)
(* The handlers of the pass are guarded by the position of the thread      *)
(* only, never by the owner of the lock.                                   *)
SXCache == "A"
DidBy(t, op) == [op |-> op, pd |-> SXCache, n |-> 0, by |-> t]

InitSX ==
    /\ mixptr \in {m \in MixPairs : m.B = 0}
    /\ \E t \in {u \in Tunables : u.buckets = 512} : pefs_dircache_init(t)
    /\ pefs_dircache_create
    /\ pde = [e \in Slots |-> FreeEntry]
    /\ keyref = [k \in Keys |-> 0]
    /\ last = DidBy(NoThread, "other")
    /\ inserted = [e \in Slots |-> <<>>]
    /\ pass = [c \in Caches |-> NoPass]
    /\ thr = [t \in Threads |-> IdleThread]

SX_Frame == UNCHANGED <<inserted, pass, mtx>> /\ UnchangedCfg
SX_Data == <<dircache, pde, pdp_tbl, pdp_enctbl, keyref, dircache_entries>>

(* the caller: sx_slock before the call, sx_unlock for a reader that leaves *)
SX_SLock(t) ==
    /\ thr[t].pc = "idle"
    /\ sx_slock(t, SXCache)
    /\ thr' = [thr EXCEPT ![t] = [IdleThread EXCEPT !.pc = "shared", !.pd = SXCache]]
    /\ last' = DidBy(t, "slock")
    /\ UNCHANGED SX_Data /\ SX_Frame

SX_SUnlock(t) ==
    /\ thr[t].pc = "shared"
    /\ sx_unlock(t, SXCache)
    /\ thr' = [thr EXCEPT ![t] = IdleThread]
    /\ last' = DidBy(t, "sunlock")
    /\ UNCHANGED SX_Data /\ SX_Frame

(* Faulty variant: goes on to the generation test even when the upgrade failed. *)
SX_TryUpgrade_ignored(t) ==
    /\ thr[t].pc = "shared"
    /\ IF pd_lock[SXCache].s = {t}
       THEN pd_lock' = [pd_lock EXCEPT ![SXCache] = [x |-> t, s |-> {}]]
       ELSE UNCHANGED pd_lock
    /\ thr' = [thr EXCEPT ![t].pc = "test", ![t].op = "begin"]
    /\ last' = DidBy(t, "try_upgrade")
    /\ UNCHANGED SX_Data /\ SX_Frame

(* sx_try_upgrade: succeeds when the caller is the only sharer *)
SX_TryUpgrade(t) ==
    /\ thr[t].pc = "shared"
    /\ IF pd_lock[SXCache].s = {t}
       THEN /\ pd_lock' = [pd_lock EXCEPT ![SXCache] = [x |-> t, s |-> {}]]
            /\ thr' = [thr EXCEPT ![t].pc = "test", ![t].op = "begin"]
       ELSE /\ UNCHANGED pd_lock
            /\ thr' = [thr EXCEPT ![t].pc = "retry", ![t].op = "begin"]
    /\ last' = DidBy(t, "try_upgrade")
    /\ UNCHANGED SX_Data /\ SX_Frame

SX_Unlock(t) ==
    /\ thr[t].pc = "retry"
    /\ sx_unlock(t, SXCache)
    /\ thr' = [thr EXCEPT ![t].pc = "xlock"]
    /\ last' = DidBy(t, "unlock")
    /\ UNCHANGED SX_Data /\ SX_Frame

SX_XLock(t) ==
    /\ thr[t].pc = "xlock"
    /\ sx_xlock(t, SXCache)
    /\ thr' = [thr EXCEPT ![t].pc = "test"]
    /\ last' = DidBy(t, "xlock")
    /\ UNCHANGED SX_Data /\ SX_Frame

(* the rest of pefs_dircache_beginupdate; gen is its argument, first read here *)
SX_Test(t, gen) ==
    /\ thr[t].pc = "test"
    /\ Commit(pefs_dircache_beginupdate(Cur, SXCache, gen))
    /\ thr' = [thr EXCEPT ![t].pc = "pass"]
    /\ last' = DidBy(t, "beginupdate")
    /\ UNCHANGED pd_lock /\ SX_Frame

SX_Insert(t, key, name, encname) ==
    /\ thr[t].pc = "pass"
    /\ ~InsertPanics(Len(name), Len(encname))
    /\ Slots \ Live(Cur) # {}
    /\ Commit(pefs_dircache_insert(Cur, SXCache, Min(Slots \ Live(Cur)),
                                   key, name, encname))
    /\ last' = DidBy(t, "insert")
    /\ UNCHANGED <<thr, pd_lock>> /\ SX_Frame

SX_Update(t, e) ==
    /\ thr[t].pc = "pass"
    /\ pde[e].live
    /\ Commit(pefs_dircache_update(Cur, e))
    /\ last' = DidBy(t, "update")
    /\ UNCHANGED <<thr, pd_lock>> /\ SX_Frame

SX_EndUpdate(t) ==
    /\ thr[t].pc = "pass"
    /\ Commit(pefs_dircache_endupdate(Cur, SXCache))
    /\ thr' = [thr EXCEPT ![t].pc = "done"]
    /\ last' = DidBy(t, "endupdate")
    /\ UNCHANGED pd_lock /\ SX_Frame

SX_AbortUpdate(t) ==
    /\ thr[t].pc = "pass"
    /\ Commit(pefs_dircache_abortupdate(Cur, SXCache))
    /\ thr' = [thr EXCEPT ![t].pc = "done"]
    /\ last' = DidBy(t, "abortupdate")
    /\ UNCHANGED pd_lock /\ SX_Frame

(* the caller drops the lock after the pass *)
SX_Return(t) ==
    /\ thr[t].pc = "done"
    /\ sx_unlock(t, SXCache)
    /\ thr' = [thr EXCEPT ![t] = IdleThread]
    /\ last' = DidBy(t, "return")
    /\ UNCHANGED SX_Data /\ SX_Frame

(* pefs_dircache_purge: sx_xlock, free both lists, sx_unlock *)
SX_Purge(t) ==
    /\ thr[t].pc = "idle"
    /\ pd_lock[SXCache].x = NoThread /\ pd_lock[SXCache].s = {}
    /\ Commit(pefs_dircache_purge(Cur, SXCache))
    /\ last' = DidBy(t, "purge")
    /\ UNCHANGED <<thr, pd_lock>> /\ SX_Frame

NextSX ==
    \/ \E t \in Threads : SX_SLock(t)
    \/ \E t \in Threads : SX_SUnlock(t)
    \/ \E t \in Threads : SX_TryUpgrade(t)
    \/ \E t \in Threads : SX_Unlock(t)
    \/ \E t \in Threads : SX_XLock(t)
    \/ \E t \in Threads, g \in Gens : SX_Test(t, g)
    \/ \E t \in Threads, k \in Keys, p \in NamePairs : SX_Insert(t, k, p[1], p[2])
    \/ \E t \in Threads, e \in Slots : SX_Update(t, e)
    \/ \E t \in Threads : SX_EndUpdate(t)
    \/ \E t \in Threads : SX_AbortUpdate(t)
    \/ \E t \in Threads : SX_Return(t)
    \/ \E t \in Threads : SX_Purge(t)

SpecSX == InitSX /\ [][NextSX]_vars

(* ============================== claims ================================ *)
Active(c) == DIRCACHE_ACTIVEHEAD(dircache[c])
Stale(c) == DIRCACHE_STALEHEAD(dircache[c])
InSomeBucket(e) ==
    \E i \in BucketIdx : e \in Elems(pdp_tbl[i]) \/ e \in Elems(pdp_enctbl[i])
Committed(c) == last.op = "endupdate" /\ last.pd = c

(* C1: right after the endupdate that commits a pass, every entry that was *)
(* inserted or reconfirmed during the pass is found by pefs_dircache_lookup *)
(* under its plaintext name: the lookup returns an entry of that cache,    *)
(* confirmed in the pass, with that name and with the encrypted name it    *)
(* was inserted with (the entry itself when the name is unique).           *)
C1_InsertCommitLookup ==
    \A c \in Caches : Committed(c) =>
        \A e \in pass[c].conf :
            /\ pde[e].live
            /\ LET r == pefs_dircache_lookup(Cur, c, inserted[e][1])
               IN  /\ r # NULL
                   /\ r \in pass[c].conf
                   /\ pde[r].pde_dircache = c
                   /\ pde[r].pde_name = inserted[e][1]
                   /\ pde[r].pde_encname = inserted[r][2]
                   /\ (\A x \in pass[c].conf \ {e} :
                          pde[x].pde_name # inserted[e][1]) => r = e

(* A pass that reconfirmed one old entry and inserted a new one is committed. *)
C1_Witness ==
    \E c \in Caches :
        /\ Committed(c)
        /\ pass[c].conf \cap pass[c].pre # {}
        /\ pass[c].conf \ pass[c].pre # {}

(* C2: right after the endupdate that commits a pass, every entry that     *)
(* existed when the pass was opened and was not reconfirmed is freed (on   *)
(* no list, in no bucket), the cache owns exactly the confirmed entries,   *)
(* pefs_dircache_lookup returns nothing but confirmed entries, and every   *)
(* reconfirmed entry is still found.                                       *)
C2_EvictionOnCommit ==
    \A c \in Caches : Committed(c) =>
        /\ \A e \in pass[c].pre \ pass[c].conf :
              /\ ~pde[e].live
              /\ e \notin OnLists(Cur, c)
              /\ ~InSomeBucket(e)
        /\ Owned(Cur, c) = pass[c].conf
        /\ Stale(c) = <<>>
        /\ \A n \in Names :
              LET r == pefs_dircache_lookup(Cur, c, n)
              IN  r # NULL => r \in pass[c].conf
        /\ \A e \in pass[c].pre \cap pass[c].conf :
              /\ pde[e].live
              /\ pefs_dircache_lookup(Cur, c, pde[e].pde_name) # NULL

(* A committed pass reconfirmed one old entry and evicted another. *)
C2_Witness ==
    \E c \in Caches :
        /\ Committed(c)
        /\ pass[c].pre \ pass[c].conf # {}
        /\ pass[c].pre \cap pass[c].conf # {}

(* C3: whenever UPDATING is clear, at most one of the two lists of a cache *)
(* is non-empty (DIRCACHE_ASSERT holds).                                   *)
C3_AtMostOneListWhenIdle ==
    \A c \in Caches : ~Updating(Cur, c) => DIRCACHE_ASSERT(dircache[c])

(* abortupdate has just relinked a confirmed entry onto a non-empty stale list. *)
C3_Witness ==
    \E c \in Caches :
        /\ last.op = "abortupdate" /\ last.pd = c
        /\ \E e1, e2 \in Elems(Stale(c)) :
              pde[e1].pde_gen = 0 /\ pde[e2].pde_gen # 0

(* C4: abortupdate on an Updating cache frees nothing: every entry that    *)
(* was on one of its lists is live and on the stale list afterwards, the   *)
(* active list is empty, UPDATING is clear and pd_gen is 0 (so any         *)
(* non-zero generation opens the next pass).  An entry leaves the stale    *)
(* list only by being freed or by being reconfirmed in an open pass, and   *)
(* the endupdate that commits a pass frees every entry then on the stale   *)
(* list.                                                                   *)
C4_AbortNonDestructive ==
    [][\A c \in Caches :
          /\ (last'.op = "abortupdate" /\ last'.pd = c) =>
                /\ Live(Cur)' = Live(Cur)
                /\ dircache_entries' = dircache_entries
                /\ keyref' = keyref
                /\ pdp_tbl' = pdp_tbl /\ pdp_enctbl' = pdp_enctbl
                /\ OnLists(Cur, c) = Elems(Stale(c)')
                /\ Active(c)' = <<>>
                /\ ~Updating(Cur, c)'
                /\ dircache'[c].pd_gen = 0
          /\ (last'.op = "endupdate" /\ last'.pd = c) =>
                \A e \in Elems(Stale(c)) : ~pde'[e].live
          /\ \A e \in Elems(Stale(c)) :
                \/ e \in Elems(Stale(c)')
                \/ ~pde'[e].live
                \/ /\ e \in Elems(Active(c)')
                   /\ Updating(Cur, c)'
                   /\ pde'[e].pde_gen = dircache'[c].pd_gen
                   /\ e \in pass'[c].conf
      ]_vars

(* abortupdate has just demoted, by the swap, two entries confirmed in the pass. *)
C4_Witness ==
    \E c \in Caches :
        /\ last.op = "abortupdate" /\ last.pd = c
        /\ Len(Stale(c)) = 2
        /\ \A e \in Elems(Stale(c)) : pde[e].live /\ pde[e].pde_gen # 0

(* C7 as stated: while pd_gen is 0 no entry of the cache passes the match  *)
(* test of pefs_dircache_lookup for its own name.                          *)
C7_NoMatchWhileGenZero ==
    \A c \in Caches : dircache[c].pd_gen = 0 =>
        \A e \in Slots, n \in Names :
            ~LookupMatch(Cur, c, n, dircache_hashname(c, n, Len(n)), e)

(* C7 amended: while pd_gen is 0 the active list is empty, and whenever    *)
(* the preconditions of pefs_dircache_lookup hold (UPDATING clear, stale   *)
(* list empty) the lookup returns NULL for every name.                     *)
C7_GenZeroNothingActive ==
    \A c \in Caches : dircache[c].pd_gen = 0 =>
        /\ Active(c) = <<>>
        /\ (~Updating(Cur, c) /\ Stale(c) = <<>>) =>
              \A n \in Names : pefs_dircache_lookup(Cur, c, n) = NULL

(* abortupdate has left, on the stale list, an entry whose stamp is 0. *)
C7_Witness ==
    \E c \in Caches :
        /\ last.op = "abortupdate" /\ last.pd = c
        /\ dircache[c].pd_gen = 0
        /\ \E e \in Elems(Stale(c)) : pde[e].live /\ pde[e].pde_gen = 0

(* C8: pefs_dircache_enclookup(pd, e) returns an entry exactly when pd     *)
(* owns a live entry whose encrypted name is e, and then returns such an   *)
(* entry, whatever its stamp, its list and the UPDATING flag.              *)
C8_EncLookupIgnoresFreshness ==
    \A c \in Caches, en \in EncNames :
        LET r == pefs_dircache_enclookup(Cur, c, en)
        IN  /\ (r # NULL) <=> (\E e \in Owned(Cur, c) : pde[e].pde_encname = en)
            /\ r # NULL => (r \in Owned(Cur, c) /\ pde[r].pde_encname = en)

(* In an open pass the lookup finds the entry just inserted and also an    *)
(* unconfirmed entry of an earlier generation.                             *)
C8_Witness ==
    \E c \in Caches :
        /\ Updating(Cur, c)
        /\ \E e \in pass[c].conf \ pass[c].pre :
              pefs_dircache_enclookup(Cur, c, pde[e].pde_encname) = e
        /\ \E e \in Elems(Stale(c)) :
              /\ pde[e].pde_gen # dircache[c].pd_gen
              /\ pefs_dircache_enclookup(Cur, c, pde[e].pde_encname) = e

(* C9: beginupdate(pd, gen) with gen = 0 or gen = pd_gen changes nothing   *)
(* (generation, flags, both lists, every entry, the tables), and a         *)
(* beginupdate that opens a pass leaves pd_gen = gen, so that a second     *)
(* call with the same gen is such a no-op.                                 *)
C9_IdempotentBegin ==
    [][\A c \in Caches, g \in Gens :
          BeginUpdate(c, g) =>
              IF g = 0 \/ g = dircache[c].pd_gen
              THEN Cur' = Cur
              ELSE /\ dircache'[c].pd_gen = g
                   /\ ~BeginOpens(dircache'[c], g)
      ]_vars

(* A pass is open with entries on both lists: an expiry would move them. *)
C9_Witness ==
    \E c \in Caches :
        /\ Updating(Cur, c)
        /\ dircache[c].pd_gen # 0
        /\ Active(c) # <<>>
        /\ Stale(c) # <<>>

(* C10: purge(pd) empties both lists, frees every entry pd owned exactly   *)
(* once (slot, buckets, key reference, counter), makes both lookups return *)
(* NULL for every name, and leaves the entries, the lists and the bucket   *)
(* order of the other caches as they were.                                 *)
C10_Purge ==
    [][\A c \in Caches :
          (last'.op = "purge" /\ last'.pd = c) =>
              LET gone == Owned(Cur, c)
              IN  /\ dircache'[c].pd_heads = <<<<>>, <<>>>>
                  /\ \A e \in gone : pde'[e] = FreeEntry
                  /\ \A e \in Slots \ gone : pde'[e] = pde[e]
                  /\ dircache_entries' = dircache_entries - Cardinality(gone)
                  /\ \A k \in Keys :
                        keyref'[k] = keyref[k] -
                            Cardinality({e \in gone : pde[e].ptk_key = k})
                  /\ \A i \in BucketIdx :
                        /\ pdp_tbl'[i] = SelectSeq(pdp_tbl[i], LAMBDA x : x \notin gone)
                        /\ pdp_enctbl'[i] =
                               SelectSeq(pdp_enctbl[i], LAMBDA x : x \notin gone)
                  /\ \A o \in Caches \ {c} : dircache'[o] = dircache[o]
                  /\ \A n \in Names : pefs_dircache_lookup(Cur, c, n)' = NULL
                  /\ \A en \in EncNames : pefs_dircache_enclookup(Cur, c, en)' = NULL
      ]_vars

(* purge has just freed two entries of a cache. *)
C10_Witness ==
    \E c \in Caches :
        /\ last.op = "purge" /\ last.pd = c /\ last.n = 2
        /\ Updating(Cur, c)

(* C5: a lookup on cache c that has returned an entry, and whose caller   *)
(* still holds pd_lock of c, holds an entry that no other cache owns.     *)
C5_Isolation ==
    \A t \in Threads :
        (thr[t].pc \in {"found", "ret"} /\ thr[t].ret # NULL) =>
            pde[thr[t].ret].pde_dircache \notin Caches \ {thr[t].pd}

(* C6: no thread is between its read and its write of a pool bucket list  *)
(* while another thread is reading, writing or scanning that list.        *)
C6_ShardMutexProtectsBuckets ==
    \A t1, t2 \in Threads :
        (/\ t1 # t2
         /\ thr[t1].pc = "cs" /\ thr[t2].pc = "cs"
         /\ thr[t1].tb = thr[t2].tb
         /\ DIRCACHE_TBLIDX(thr[t1].h) = DIRCACHE_TBLIDX(thr[t2].h))
        => (thr[t1].op = "scan" /\ thr[t2].op = "scan")

(* C11: pefs_dircache_insert with name_len or encname_len equal to 0 or   *)
(* at least sizeof(pde_name) panics and changes nothing (no entry, no key *)
(* reference, no list, no bucket, same counter); with both lengths in     *)
(* 1 .. sizeof(pde_name) - 1 it does not panic and creates the entry.     *)
C11_InsertLengthGuard ==
    [][\A c \in Caches, k \in Keys, nl \in Lens, el \in Lens :
          InsertLen(c, k, nl, el) =>
              IF nl = 0 \/ nl >= NameSize \/ el = 0 \/ el >= NameSize
              THEN /\ Panicked'
                   /\ Cur' = Cur
              ELSE /\ ~Panicked'
                   /\ dircache_entries' = dircache_entries + 1
                   /\ keyref'[k] = keyref[k] + 1
                   /\ \E e \in Slots :
                         /\ ~pde[e].live /\ pde'[e].live
                         /\ Len(pde'[e].pde_name) = nl
                         /\ Len(pde'[e].pde_encname) = el
      ]_vars

(* An insert has panicked in a pool that holds an entry whose names have  *)
(* the greatest length allowed.                                           *)
C11_Witness ==
    /\ Panicked
    /\ \E e \in Slots :
          /\ pde[e].live
          /\ Len(pde[e].pde_name) = NameSize - 1
          /\ Len(pde[e].pde_encname) = NameSize - 1

Occ(list, e) == Cardinality({i \in DOMAIN list : list[i] = e})
InProgress(e) ==
    \E t \in Threads : thr[t].op \in {"ins", "rem"} /\ thr[t].e = e

(* C12: every live entry with no insert or free of it in progress is on   *)
(* exactly one of the two lists of its cache and on no list of another    *)
(* cache, once in the plaintext table, in the bucket of its plaintext     *)
(* hash, and once in the encrypted table, in the bucket of its encrypted  *)
(* hash; a freed entry is on no list and in no bucket.                    *)
C12_EntryMembership ==
    \A e \in Slots : ~InProgress(e) =>
        IF pde[e].live
        THEN LET c == pde[e].pde_dircache
                 ni == DIRCACHE_TBLIDX(pde[e].pde_namehash)
                 ei == DIRCACHE_TBLIDX(pde[e].pde_encnamehash)
             IN  /\ Occ(dircache[c].pd_heads[1], e) +
                        Occ(dircache[c].pd_heads[2], e) = 1
                 /\ \A o \in Caches \ {c} : e \notin OnLists(Cur, o)
                 /\ {i \in BucketIdx : e \in Elems(pdp_tbl[i])} = {ni}
                 /\ Occ(pdp_tbl[ni], e) = 1
                 /\ {i \in BucketIdx : e \in Elems(pdp_enctbl[i])} = {ei}
                 /\ Occ(pdp_enctbl[ei], e) = 1
        ELSE /\ \A o \in Caches : e \notin OnLists(Cur, o)
             /\ ~InSomeBucket(e)

(* C13: for every key, the references the cache holds on it equal the     *)
(* number of live entries carrying it (one taken by the insert, one       *)
(* released by the free, never two and never none), and every entry a     *)
(* lookup by plaintext or by encrypted name returns is live and its key   *)
(* still referenced.                                                      *)
C13_KeyRefs ==
    /\ \A k \in Keys :
          keyref[k] = Cardinality({e \in Slots : pde[e].live /\ pde[e].ptk_key = k})
    /\ \A c \in Caches, p \in NamePairs :
          \A x \in {pefs_dircache_lookup(Cur, c, p[1]),
                    pefs_dircache_enclookup(Cur, c, p[2])} \ {NULL} :
              /\ pde[x].live
              /\ pde[x].ptk_key \in Keys
              /\ keyref[pde[x].ptk_key] > 0

(* An endupdate has just freed an entry (releasing its key) and another   *)
(* entry of the same key stays and is found by a lookup.                  *)
C13_Witness ==
    /\ last.op = "endupdate" /\ last.n = 1
    /\ \E k \in Keys : keyref[k] = 1
    /\ \E p \in NamePairs : pefs_dircache_lookup(Cur, last.pd, p[1]) # NULL

(* C16: a reconfirm (pefs_dircache_update) of an entry, or an insert, on  *)
(* a cache that is not Updating adds nothing to the active list, frees    *)
(* nothing and leaves the cache idle; when the generation of the cache is *)
(* 0 or differs from the stamp of the entry (0 for a new entry), the      *)
(* active list is empty afterwards, every entry that was on a list is     *)
(* still on one, the stamp of the entry is 0 and the entry is on the      *)
(* stale list; when the generation is non-zero and equals the stamp, the  *)
(* cache and all entries are as before.                                   *)
C16_IdleUpdate ==
    [][\A c \in Caches : ~Updating(Cur, c) =>
         \A e \in Slots :
           LET step ==
                 \/ pde[e].live /\ pde[e].pde_dircache = c /\ Update(e)
                 \/ /\ ~pde[e].live /\ e = Min(Slots \ Live(Cur))
                    /\ \E k \in Keys, p \in NamePairs : Insert(c, k, p[1], p[2])
               stamp == IF pde[e].live THEN pde[e].pde_gen ELSE 0
               gen == dircache[c].pd_gen
           IN  step =>
                 /\ PD_UPDATING \notin dircache'[c].pd_flags
                 /\ Elems(DIRCACHE_ACTIVEHEAD(dircache'[c])) \subseteq Elems(Active(c))
                 /\ \A x \in Slots : pde[x].live => pde'[x].live
                 /\ IF gen = 0 \/ gen # stamp
                    THEN /\ DIRCACHE_ACTIVEHEAD(dircache'[c]) = <<>>
                         /\ Elems(DIRCACHE_STALEHEAD(dircache'[c])) =
                                OnLists(Cur, c) \cup {e}
                         /\ pde'[e].pde_gen = 0
                         /\ pde'[e].live
                    ELSE /\ dircache'[c] = dircache[c]
                         /\ pde' = pde]_vars

(* Both cases have happened on an idle cache: an entry with a cleared     *)
(* stamp lies on the stale list next to one that an expire moved there    *)
(* with its stamp, the active list is empty and the generation is 0.      *)
C16_Witness ==
    \E c \in Caches :
        /\ ~Updating(Cur, c)
        /\ dircache[c].pd_gen = 0
        /\ Active(c) = <<>>
        /\ \E a, b \in Elems(Stale(c)) : pde[a].pde_gen = 0 /\ pde[b].pde_gen # 0

(* C17: in every reachable state, a beginupdate(pd, gen) that would open  *)
(* a pass (gen non-zero and different from pd_gen) and finds the active   *)
(* list non-empty finds the stale list empty, which is what it asserts    *)
(* just before it calls dircache_expire.                                  *)
C17_StaleEmptyAtExpire ==
    \A c \in Caches, g \in Gens :
        (BeginOpens(dircache[c], g) /\ Active(c) # <<>>) => Stale(c) = <<>>

(* C18: every entry on the active list of a cache carries the generation  *)
(* of the cache as its stamp, and that generation is not 0; hence a live  *)
(* entry whose stamp is 0 or differs from the generation of its cache is  *)
(* not on the active list but on the stale list.                          *)
C18_ActiveStamps ==
    \A c \in Caches :
        /\ \A e \in Elems(Active(c)) : pde[e].pde_gen = dircache[c].pd_gen
        /\ Active(c) # <<>> => dircache[c].pd_gen # 0
        /\ \A e \in Owned(Cur, c) :
              (pde[e].pde_gen = 0 \/ pde[e].pde_gen # dircache[c].pd_gen) =>
                  (e \notin Elems(Active(c)) /\ e \in Elems(Stale(c)))

(* A pass has an entry on its active list while an entry stamped by an    *)
(* earlier generation waits on the stale list.                            *)
C18_Witness ==
    \E c \in Caches :
        /\ Active(c) # <<>>
        /\ \E e \in Elems(Stale(c)) : pde[e].pde_gen \notin {0, dircache[c].pd_gen}

(* C19: an abortupdate of an Updating cache whose pass had the generation *)
(* g leaves pd_gen at 0; a beginupdate with the same g called next        *)
(* therefore opens a pass: pd_gen is g again, UPDATING is set, the active *)
(* list is empty and the entries the abort left are on the stale list.    *)
(* In that pass a reconfirm puts such an entry on the active list with    *)
(* stamp g and the endupdate keeps it, and the endupdate frees every      *)
(* entry that was not reconfirmed.                                        *)
C19_AbortThenSameGen ==
    [][\A c \in Caches : (last'.op = "abortupdate" /\ last'.pd = c) =>
         LET g == dircache[c].pd_gen
             S == Cur'
             T == pefs_dircache_beginupdate(S, c, g)
             left == Elems(DIRCACHE_STALEHEAD(S.pd[c]))
         IN  /\ g # 0
             /\ S.pd[c].pd_gen = 0
             /\ left = OnLists(Cur, c)
             /\ T.pd[c].pd_gen = g
             /\ Updating(T, c)
             /\ DIRCACHE_ACTIVEHEAD(T.pd[c]) = <<>>
             /\ Elems(DIRCACHE_STALEHEAD(T.pd[c])) = left
             /\ \A e \in left : ~pefs_dircache_endupdate(T, c).pde[e].live
             /\ \A e \in left :
                   LET U == pefs_dircache_update(T, e)
                       V == pefs_dircache_endupdate(U, c)
                   IN  /\ DIRCACHE_ACTIVEHEAD(U.pd[c]) = <<e>>
                       /\ U.pde[e].pde_gen = g
                       /\ V.pde[e].live
                       /\ DIRCACHE_ACTIVEHEAD(V.pd[c]) = <<e>>
                       /\ \A x \in left \ {e} : ~V.pde[x].live]_vars

(* An abortupdate has left on the stale list an entry the pass had        *)
(* confirmed together with one it had not.                                *)
C19_Witness ==
    \E c \in Caches :
        /\ last.op = "abortupdate" /\ last.pd = c
        /\ dircache[c].pd_gen = 0
        /\ \E a, b \in Elems(Stale(c)) :
              a # b /\ inserted[a] # <<>> /\ pde[b].pde_gen = 0

IsPow2(n) == \E k \in 0..24 : n = Pow2(k)

(* C15: after the module load each of the two tables has a number of      *)
(* buckets that is a power of two and at least DIRCACHE_SIZE_MIN, namely  *)
(* DIRCACHE_SIZE_MIN for a request below it and otherwise the least power *)
(* of two that is not below the request (the request itself when it is a  *)
(* power of two).                                                         *)
C15_TableSize ==
    last.op = "init" =>
        LET request == last.n
            size == Cardinality(DOMAIN pdp_tbl)
        IN  /\ Cardinality(DOMAIN pdp_enctbl) = size
            /\ IsPow2(size)
            /\ size >= DIRCACHE_SIZE_MIN
            /\ request < DIRCACHE_SIZE_MIN => size = DIRCACHE_SIZE_MIN
            /\ request >= DIRCACHE_SIZE_MIN =>
                  (size >= request /\ size < 2 * request)

InBegin(t) == thr[t].pc \in {"test", "pass"}

C14_Exclusive ==
    /\ \A t \in Threads : InBegin(t) =>
          pd_lock[SXCache] = [x |-> t, s |-> {}]
    /\ \A t, u \in Threads : (InBegin(t) /\ InBegin(u)) => t = u
    /\ Updating(Cur, SXCache) => \E t \in Threads : thr[t].pc = "pass"

C14_NoForeignWrite ==
    \A t \in Threads :
        (thr[t].pc = "pass" /\ dircache'[SXCache] # dircache[SXCache]) =>
            last'.by = t

(* C14: a thread that is at the generation test of beginupdate, or between *)
(* the return of its beginupdate and its endupdate or abortupdate, owns    *)
(* the cache lock exclusively, whether its upgrade succeeded or it         *)
(* released and re-acquired the lock; so two threads are never both        *)
(* there, the UPDATING flag is set only while some thread is in its pass,  *)
(* and every step that changes the lists, the generation or the flags of   *)
(* the cache while a thread is in its pass is a step of that thread.       *)
C14_SingleWriter == []C14_Exclusive /\ [][C14_NoForeignWrite]_vars

(* Both paths have been taken: a thread is in its pass after a failed      *)
(* upgrade and a re-acquire, while the other threads wait for the lock.    *)
C14_Witness ==
    \E t \in Threads :
        /\ thr[t].pc = "pass" /\ Updating(Cur, SXCache)
        /\ Active(SXCache) # <<>>
        /\ \A u \in Threads \ {t} : thr[u].pc = "xlock"

Held(t) == {i \in DOMAIN mtx : mtx[i] = t}

C20_OneMutex == \A t \in Threads : Cardinality(Held(t)) <= 1

C20_NoCacheLockUnderMutex ==
    \A t \in Threads, c \in Caches :
        ((pd_lock'[c].x = t /\ pd_lock[c].x # t) \/
         (t \in pd_lock'[c].s /\ t \notin pd_lock[c].s)) => Held(t) = {}

C20_Completes ==
    \A t \in Threads : (thr[t].pc # "idle") ~> (thr[t].pc = "idle")

(* C20: no thread holds two shard mutexes at once, no thread acquires a    *)
(* cache lock while it holds a shard mutex, and under fair scheduling      *)
(* every insert, free and lookup a thread has started comes to its end.    *)
C20_LockDiscipline ==
    /\ []C20_OneMutex
    /\ [][C20_NoCacheLockUnderMutex]_vars
    /\ C20_Completes

====
